---------------------------- MODULE Spec2Model ----------------------------
(***************************************************************************)
(* Model of the Expo config plugin src/withGoogleCredentialManager.ts:     *)
(* the dependency patch of app/build.gradle, the generation of the two     *)
(* Kotlin files and the registration patch of MainApplication.kt.          *)
(*                                                                         *)
(* A text is a sequence of lexemes (strings); substring search and         *)
(* replacement work on these sequences the way String.prototype.includes   *)
(* and String.prototype.replace work on characters.                        *)
(***************************************************************************)
EXTENDS Integers, Sequences, FiniteSets, TLC

(* ------------------------------ bounds --------------------------------- *)

\* longest build.gradle text enumerated exhaustively over GradleAlphabet
MaxGradleLen == 4

\* longest MainApplication.kt text enumerated exhaustively over MainAlphabet
MaxMainLen == 4

\* number of pipeline runs (prebuilds) on the same project tree
MaxRuns == 2

(* --------------------------- text primitives --------------------------- *)

\* the content of a path that names no file (fs.existsSync is false,
\* fs.readFileSync throws ENOENT)
NoFile == <<"<ENOENT>">>

\* an option or config field that was not supplied (undefined)
Absent == <<"<undefined>">>

\* sub occurs in s at position i
IsAt(s, sub, i) ==
  /\ i >= 1
  /\ i + Len(sub) - 1 <= Len(s)
  /\ \A k \in 1..Len(sub) : s[i + k - 1] = sub[k]

\* String.prototype.includes
Includes(s, sub) == \E i \in 1..(Len(s) + 1) : IsAt(s, sub, i)

\* String.prototype.indexOf, 1-based; 0 when sub does not occur
IndexOf(s, sub) ==
  IF Includes(s, sub)
    THEN CHOOSE i \in 1..(Len(s) + 1) :
           /\ IsAt(s, sub, i)
           /\ \A j \in 1..(i - 1) : ~IsAt(s, sub, j)
    ELSE 0

\* String.prototype.replace with a string pattern: the first occurrence only
ReplaceFirst(s, pat, rep) ==
  LET i == IndexOf(s, pat)
  IN  IF i = 0
        THEN s
        ELSE SubSeq(s, 1, i - 1) \o rep \o SubSeq(s, i + Len(pat), Len(s))

\* number of (possibly overlapping) occurrences of sub in s
CountOcc(s, sub) == Cardinality({i \in 1..(Len(s) + 1) : IsAt(s, sub, i)})

\* all texts of at most n lexemes over an alphabet
TextsUpTo(alphabet, n) == UNION {[1..k -> alphabet] : k \in 0..n}

(* --------------------- dependency patch (build.gradle) ----------------- *)

\* 'implementation("com.facebook.react:react-android")'
ReactAndroidAnchor ==
  <<"implementation(\"", "com.facebook.react:react-android", "\")">>

\* 'androidx.credentials:credentials'
DependencyMarker == <<"androidx.credentials:credentials">>

\* the template literal dependencyToAdd
dependencyToAdd ==
  << "\n    ",
     "// Google Sign-In via Credential Manager (expo-plugin-google-signin)",
     "\n    ",
     "implementation(\"", "androidx.credentials:credentials", ":1.3.0", "\")",
     "\n    ",
     "implementation(\"", "androidx.credentials:credentials",
         "-play-services-auth:1.3.0", "\")",
     "\n    ",
     "implementation(\"",
         "com.google.android.libraries.identity.googleid:googleid", ":1.1.1",
         "\")",
     "\n" >>

DependenciesPresent_Never(buildGradle) == FALSE

DependenciesPresent_OldVersion(buildGradle) ==
  Includes(buildGradle, <<"androidx.credentials:credentials", ":1.2.0">>)

\* buildGradle.includes('androidx.credentials:credentials')
DependenciesPresent(buildGradle) == Includes(buildGradle, DependencyMarker)

\* every occurrence of pat replaced, left to right (String.prototype.replaceAll)
RECURSIVE ReplaceEvery(_, _, _)
ReplaceEvery(s, pat, rep) ==
  LET i == IndexOf(s, pat)
  IN  IF i = 0
        THEN s
        ELSE SubSeq(s, 1, i - 1) \o rep
               \o ReplaceEvery(SubSeq(s, i + Len(pat), Len(s)), pat, rep)

InsertDependencies_All(buildGradle) ==
  ReplaceEvery(buildGradle, ReactAndroidAnchor,
               ReactAndroidAnchor \o dependencyToAdd)

InsertDependencies_Append(buildGradle) ==
  IF Includes(buildGradle, ReactAndroidAnchor)
    THEN ReplaceFirst(buildGradle, ReactAndroidAnchor,
                      ReactAndroidAnchor \o dependencyToAdd)
    ELSE buildGradle \o dependencyToAdd

InsertDependencies_Before(buildGradle) ==
  ReplaceFirst(buildGradle, ReactAndroidAnchor,
               dependencyToAdd \o ReactAndroidAnchor)

\* buildGradle.replace(anchor, `${anchor}${dependencyToAdd}`)
InsertDependencies(buildGradle) ==
  ReplaceFirst(buildGradle, ReactAndroidAnchor,
               ReactAndroidAnchor \o dependencyToAdd)

\* console messages of the plugin
MsgUsingPackage == "Using Android package"
MsgDepsPresent  == "Dependencies already present"
MsgDepsAdded    == "Added dependencies to build.gradle"
MsgModuleKt     == "Created GoogleCredentialModule.kt"
MsgPackageKt    == "Created GoogleCredentialPackage.kt"
MsgMainMissing  == "MainApplication.kt not found at expected path"
MsgRegistered   == "Registered package in MainApplication.kt"
MsgAlreadyReg   == "Package already registered"

LogLine(m)  == [level |-> "log", msg |-> m]
WarnLine(m) == [level |-> "warn", msg |-> m]

\* the mod callback of withCredentialManagerDependencies on the text it read:
\* the text it leaves in the file, whether it called writeFileSync, what it
\* printed
DependencyPatch(buildGradle) ==
  IF DependenciesPresent(buildGradle)
    THEN [text |-> buildGradle, wrote |-> FALSE, out |-> LogLine(MsgDepsPresent)]
    ELSE [text |-> InsertDependencies(buildGradle), wrote |-> TRUE,
          out |-> LogLine(MsgDepsAdded)]

(* ------------------ registration patch (MainApplication.kt) ------------ *)

\* 'PackageList(this).packages.apply'
PackageListApply == "PackageList(this).packages.apply"

\* 'GoogleCredentialPackage'
RegistrationMarker == <<"GoogleCredentialPackage">>

\* 'add(GoogleCredentialPackage())'
RegistrationStatement == <<"add(", "GoogleCredentialPackage", "())">>

\* the replacement template literal
RegistrationBlock ==
  << PackageListApply, " ", "{",
     "\n              ",
     "// Google Sign-In via Credential Manager (expo-plugin-google-signin)",
     "\n              " >>
  \o RegistrationStatement
  \o << "\n            ", "}" >>

\* \s : lexemes made of white space only
IsSpace(lexeme) ==
  lexeme \in {" ", "\n", "\n    ", "\n              ", "\n            "}

\* the first index >= j that holds no white space (Len(s) + 1 when none)
SkipSpace(s, j) ==
  CHOOSE m \in j..(Len(s) + 1) :
    /\ m = Len(s) + 1 \/ ~IsSpace(s[m])
    /\ \A n \in j..(m - 1) : IsSpace(s[n])

\* /PackageList\(this\)\.packages\.apply\s*\{[^}]*\}/ tried at position i:
\* the index of the last lexeme of the match, 0 when there is no match at i
MatchEndAt(s, i) ==
  IF i > Len(s) \/ s[i] # PackageListApply
    THEN 0
    ELSE LET j == SkipSpace(s, i + 1)
         IN  IF j > Len(s) \/ s[j] # "{"
               THEN 0
               ELSE IF \E k \in (j + 1)..Len(s) : s[k] = "}"
                      THEN CHOOSE k \in (j + 1)..Len(s) :
                             /\ s[k] = "}"
                             /\ \A n \in (j + 1)..(k - 1) : s[n] # "}"
                      ELSE 0

\* RegExp.prototype.test of the pattern
HasApplyBlock(s) == \E i \in 1..Len(s) : MatchEndAt(s, i) > 0

\* where the leftmost match starts (0 when the pattern does not match)
MatchStart(s) ==
  IF HasApplyBlock(s)
    THEN CHOOSE i \in 1..Len(s) :
           /\ MatchEndAt(s, i) > 0
           /\ \A j \in 1..(i - 1) : MatchEndAt(s, j) = 0
    ELSE 0

\* mainApp.includes('GoogleCredentialPackage')
PackageRegistered(mainApp) == Includes(mainApp, RegistrationMarker)

RegisterPackage_KeepBody(mainApp) ==
  LET i == MatchStart(mainApp)
  IN  IF i = 0
        THEN mainApp
        ELSE LET k == MatchEndAt(mainApp, i)
             IN  SubSeq(mainApp, 1, k - 1)
                   \o <<"add(", "GoogleCredentialPkg", "())", "\n">>
                   \o SubSeq(mainApp, k, Len(mainApp))

\* mainApp.replace(/PackageList...\{[^}]*\}/, block): the leftmost match only
RegisterPackage(mainApp) ==
  LET i == MatchStart(mainApp)
  IN  IF i = 0
        THEN mainApp
        ELSE SubSeq(mainApp, 1, i - 1) \o RegistrationBlock
               \o SubSeq(mainApp, MatchEndAt(mainApp, i) + 1, Len(mainApp))

\* the mod callback of withCredentialManagerMainApplication on the text it
\* read (the file exists)
RegistrationPatch(mainApp) ==
  IF PackageRegistered(mainApp)
    THEN [text |-> mainApp, wrote |-> FALSE, out |-> LogLine(MsgAlreadyReg)]
    ELSE [text |-> RegisterPackage(mainApp), wrote |-> TRUE,
          out |-> LogLine(MsgRegistered)]

(* ------------------------ package name and paths ----------------------- *)

\* package identifiers, as lexemes
ComApp        == <<"com", ".", "app">>
ComMyapp      == <<"com", ".", "myapp">>
ComExampleApp == <<"com", ".", "example", ".", "app">>

ResolvePackage_ConfigFirst(propsPkg, configPkg) ==
  IF configPkg \notin {Absent, <<>>}
    THEN configPkg
    ELSE IF propsPkg \notin {Absent, <<>>}
           THEN propsPkg
           ELSE ComApp

ResolvePackage_Nullish(propsPkg, configPkg) ==
  IF propsPkg # Absent
    THEN propsPkg
    ELSE IF configPkg # Absent
           THEN configPkg
           ELSE ComApp

\* props?.androidPackage || config.android?.package || 'com.app'
\* (undefined and the empty string are falsy)
ResolvePackage(propsPackage, configPackage) ==
  IF propsPackage \notin {Absent, <<>>}
    THEN propsPackage
    ELSE IF configPackage \notin {Absent, <<>>}
           THEN configPackage
           ELSE ComApp

packageToPath_FirstOnly(packageName) ==
  ReplaceFirst(packageName, <<".">>, <<"/">>)

\* packageName.replace(/\./g, '/')
packageToPath(packageName) ==
  [i \in 1..Len(packageName) |->
     IF packageName[i] = "." THEN "/" ELSE packageName[i]]

\* path.join(platformProjectRoot, 'app', 'build.gradle'), relative to the root
BuildGradlePath == <<"app", "/", "build.gradle">>

PackageDir_Default(androidPkg) ==
  <<"app", "/", "src", "/", "main", "/", "java", "/", "com", "/", "app">>

\* path.join(root, 'app', 'src', 'main', 'java', packagePath); path.join
\* drops an empty segment
PackageDir(androidPkg) ==
  <<"app", "/", "src", "/", "main", "/", "java">>
  \o (IF androidPkg = <<>> THEN <<>> ELSE <<"/">> \o packageToPath(androidPkg))

ModulePath(androidPkg)  == PackageDir(androidPkg) \o <<"/", "GoogleCredentialModule.kt">>
PackageKtPath(androidPkg) == PackageDir(androidPkg) \o <<"/", "GoogleCredentialPackage.kt">>
MainAppPath(androidPkg) == PackageDir(androidPkg) \o <<"/", "MainApplication.kt">>

\* a file of the project the plugin has no business with
SettingsGradlePath == <<"settings.gradle">>

\* the package identifiers a run of the model can resolve
Packages == {ComApp, ComMyapp, ComExampleApp}

\* the paths of the modelled project tree
Paths ==
  {BuildGradlePath, SettingsGradlePath}
  \cup {ModulePath(p) : p \in Packages}
  \cup {PackageKtPath(p) : p \in Packages}
  \cup {MainAppPath(p) : p \in Packages}

(* ---------------------------- generated files -------------------------- *)

generateGoogleCredentialModuleKt_Twice(packageName) ==
  <<"package ">> \o packageName
  \o <<"\n\n", "import ">> \o packageName
  \o <<"\n", "import android.app.Activity ... class GoogleCredentialModule">>

\* `package ${packageName}` followed by the fixed body of the template
generateGoogleCredentialModuleKt(packageName) ==
  <<"package ">> \o packageName
  \o <<"\n\n", "import android.app.Activity ... class GoogleCredentialModule">>

generateGoogleCredentialPackageKt(packageName) ==
  <<"package ">> \o packageName
  \o <<"\n\n", "import com.facebook.react.ReactPackage ... class GoogleCredentialPackage">>

(* ------------------- run time: bridge and native module ---------------- *)

\* number of signInWithGoogle calls the app makes (they may overlap)
MaxCalls == 2

\* enum GoogleSignInErrorCode
GoogleSignInErrorCodes ==
  {"SIGN_IN_CANCELLED", "NO_CREDENTIAL", "CREDENTIAL_ERROR", "PARSE_ERROR",
   "INVALID_CREDENTIAL_TYPE", "INVALID_CREDENTIAL", "NO_ACTIVITY",
   "UNKNOWN_ERROR"}

\* the value of a property the object does not have
NoCode == "<none>"

\* a JavaScript value as far as the bridge looks at it: t is its kind
\* ("object", "function", "string", "null", "undefined"; "result" for the
\* sign-in result object, "none" before there is a value), code its code
\* property, msg its message
JsValue(t, code, msg) == [t |-> t, code |-> code, msg |-> msg]

NoValue == JsValue("none", NoCode, "")
JsNull  == JsValue("null", NoCode, "")

\* the map handleSignInResult resolves with (idToken, id, displayName,
\* givenName, familyName, profilePictureUri)
SignInResult == JsValue("result", NoCode, "")

\* new Error(message): an Error object without a code property
PlainError(message) == JsValue("object", NoCode, message)

MsgNotAndroid == "signInWithGoogle is only available on Android"
MsgNoModule   == "GoogleCredentialModule native module not found"

\* promise.resolve(value); promise.reject(code, message) reaches JavaScript
\* as an Error object whose code property is the code
PromiseResolve(value) == [kind |-> "resolve", value |-> value]
PromiseReject(code, message) ==
  [kind |-> "reject", value |-> JsValue("object", code, message)]

\* Kotlin exception classes and their superclasses, as far as the catch
\* clauses tell them apart
Supertypes(exception) ==
  CASE exception = "GetCredentialCancellationException" ->
         {"GetCredentialCancellationException", "GetCredentialException",
          "Exception"}
    [] exception = "NoCredentialException" ->
         {"NoCredentialException", "GetCredentialException", "Exception"}
    [] exception = "GetCredentialUnknownException" ->
         {"GetCredentialUnknownException", "GetCredentialException",
          "Exception"}
    [] OTHER -> {exception, "Exception"}

\* private fun handleSignInResult: the promise calls it makes
handleSignInResult(credential) ==
  IF credential.class = "CustomCredential"
    THEN IF credential.type = "TYPE_GOOGLE_ID_TOKEN_CREDENTIAL"
           THEN IF credential.parses
                  THEN <<PromiseResolve(SignInResult)>>
                  ELSE <<PromiseReject("PARSE_ERROR",
                                       "Failed to parse Google credential")>>
           ELSE <<PromiseReject("INVALID_CREDENTIAL_TYPE",
                                "Unexpected credential type")>>
    ELSE <<PromiseReject("INVALID_CREDENTIAL", "Unexpected credential class")>>

CatchClauses_GeneralFirst ==
  << [catches |-> "GetCredentialException",
      code |-> "CREDENTIAL_ERROR", msg |-> "Credential error"],
     [catches |-> "GetCredentialCancellationException",
      code |-> "SIGN_IN_CANCELLED", msg |-> "User cancelled the sign-in"],
     [catches |-> "NoCredentialException",
      code |-> "NO_CREDENTIAL", msg |-> "No credential available"],
     [catches |-> "Exception",
      code |-> "UNKNOWN_ERROR", msg |-> "Unknown error"] >>

\* the catch clauses of the coroutine, tried in their order
CatchClauses ==
  << [catches |-> "GetCredentialCancellationException",
      code |-> "SIGN_IN_CANCELLED", msg |-> "User cancelled the sign-in"],
     [catches |-> "NoCredentialException",
      code |-> "NO_CREDENTIAL", msg |-> "No credential available"],
     [catches |-> "GetCredentialException",
      code |-> "CREDENTIAL_ERROR", msg |-> "Credential error"],
     [catches |-> "Exception",
      code |-> "UNKNOWN_ERROR", msg |-> "Unknown error"] >>

\* the first catch clause that takes the exception
Caught(exception) ==
  LET i == CHOOSE n \in 1..Len(CatchClauses) :
             /\ CatchClauses[n].catches \in Supertypes(exception)
             /\ \A m \in 1..(n - 1) :
                  CatchClauses[m].catches \notin Supertypes(exception)
  IN  CatchClauses[i]

\* the body of CoroutineScope(Dispatchers.Main).launch { ... } on what
\* credentialManager.getCredential did: the promise calls it makes
CoroutineBody(outcome) ==
  IF outcome.throws = "nothing"
    THEN handleSignInResult(outcome.credential)
    ELSE <<PromiseReject(Caught(outcome.throws).code,
                         Caught(outcome.throws).msg)>>

\* a credential no branch of handleSignInResult looks at
NoCredential == [class |-> "none", type |-> "none", parses |-> FALSE]

\* what getCredential can do: return a response or throw
CredentialOutcomes ==
  [throws : {"nothing"},
   credential : [class : {"CustomCredential", "PasswordCredential"},
                 type : {"TYPE_GOOGLE_ID_TOKEN_CREDENTIAL", "other"},
                 parses : BOOLEAN]]
  \cup
  [throws : {"GetCredentialCancellationException", "NoCredentialException",
             "GetCredentialUnknownException", "IllegalStateException"},
   credential : {NoCredential}]

signIn_Unconditional(activity) == [settles |-> <<>>, requested |-> TRUE]

signIn_NoReturn(activity) ==
  [settles |-> IF activity
                 THEN <<>>
                 ELSE <<PromiseReject("NO_ACTIVITY", "No activity available")>>,
   requested |-> TRUE]

\* fun signIn up to the launch of the coroutine: without an activity it
\* rejects and returns; otherwise it makes a nonce, builds the request and
\* launches the coroutine
signIn(activity) ==
  [settles |-> IF activity
                 THEN <<>>
                 ELSE <<PromiseReject("NO_ACTIVITY", "No activity available")>>,
   requested |-> activity]

IsCancellation_Never(error) == FALSE

IsCancellation_NoTypeCheck(error) ==
  /\ error.t \notin {"null", "undefined"}
  /\ error.code # NoCode
  /\ error.code = "SIGN_IN_CANCELLED"

\* error && typeof error === 'object' && 'code' in error &&
\* error.code === GoogleSignInErrorCode.SIGN_IN_CANCELLED
IsCancellation(error) ==
  /\ error.t \notin {"null", "undefined"}
  /\ error.t = "object"
  /\ error.code # NoCode
  /\ error.code = "SIGN_IN_CANCELLED"

\* what a stub of the native module may settle its promise with
StubSettlements ==
  {PromiseResolve(SignInResult)}
  \cup {[kind |-> "reject", value |-> JsValue(t, c, "stub")] :
          t \in {"object", "function"},
          c \in {"SIGN_IN_CANCELLED", "NO_CREDENTIAL", "E_STUB", NoCode}}
  \cup {[kind |-> "reject", value |-> JsValue(t, NoCode, "stub")] :
          t \in {"string", "null", "undefined"}}

\* getCredential has not returned or thrown
NoOutcome == [throws |-> "none", credential |-> NoCredential]

FreshNonce_Cached(issued) == 1

\* UUID.randomUUID().toString(), a local val of signIn: a value that none of
\* the requests issued so far carries
FreshNonce(issued) == Len(issued) + 1

\* a call the app has not made yet; activity ("absent" or "present") is
\* what currentActivity was when the native signIn ran, outcome what
\* getCredential did
NotCalled ==
  [js |-> "notCalled", value |-> NoValue, nativeCalls |-> 0,
   native |-> "none", activity |-> "none", nonce |-> 0,
   outcome |-> NoOutcome, settles |-> <<>>]

(* ------------------------- example app (App.tsx) ----------------------- *)

\* values of Constants.expoConfig?.extra?.googleWebClientId || ''
NoClientId          == ""
PlaceholderClientId == "YOUR_WEB_CLIENT_ID.apps.googleusercontent.com"
RealClientId        == "1234.apps.googleusercontent.com"

MsgSetClientId == "Please set your Google Web Client ID in app.json"
MsgOnlyAndroid == "Google Sign-In is only available on Android"
MsgSignInFailed == "Sign-in failed"

\* the values of type AuthState
Idle == [status |-> "idle", user |-> NoValue, message |-> ""]
Loading == [status |-> "loading", user |-> NoValue, message |-> ""]
Authenticated(user) ==
  [status |-> "authenticated", user |-> user, message |-> ""]
ErrorState(message) ==
  [status |-> "error", user |-> NoValue, message |-> message]

\* a value that `if (result)` takes as true
Truthy(value) == value.t \notin {"null", "undefined", "none"}

(* -------------------------------- state -------------------------------- *)

VARIABLES
  fs,              \* the project tree: path -> text, NoFile where no file is
  dirs,            \* the package directories that exist
  propsPackage,    \* props.androidPackage in app.json (Absent when omitted)
  configPackage,   \* config.android.package (Absent when omitted)
  modOrder,        \* the order in which the mod compiler of
                   \* @expo/config-plugins runs the registered mods:
                   \* "registration" or "reverse" (the library decides)
  pc,              \* "idle", "running", "done" or "failed"
  androidPackage,  \* the package identifier the current run resolved
  chain,           \* the mods of the current run that have not run yet
  log,             \* console output of the current run
  written,         \* paths handed to fs.writeFileSync in the current run
  outcomes,        \* how each run that has ended ended: "done" or "failed"
  startTree,       \* the project tree when the current run started
  tree0,           \* the project tree before the first run
  platformOS,      \* Platform.OS of the running app
  moduleLoaded,    \* NativeModules.GoogleCredentialModule is defined
  nativeImpl,      \* what stands behind it: the "generated" Kotlin module
                   \* or a "stub" (a test double)
  calls,           \* the signInWithGoogle calls of the app, by call number
  requestNonces,   \* the nonces of the credential requests issued so far
  webClientId,     \* extra.googleWebClientId of the example app's app.json
  authState,       \* the example app's useState<AuthState>
  pending          \* the calls a handleSignIn of the example app is awaiting

\* the build-time state (the plugin) and the run-time state (the bridge)
pluginVars == <<fs, dirs, propsPackage, configPackage, modOrder, pc,
                androidPackage, chain, log, written, outcomes, startTree,
                tree0>>

bridgeVars == <<platformOS, moduleLoaded, nativeImpl, calls, requestNonces>>

\* the state of the example app (example/App.tsx)
appVars == <<webClientId, authState, pending>>

vars == <<fs, dirs, propsPackage, configPackage, modOrder, pc, androidPackage,
          chain, log, written, outcomes, startTree, tree0,
          platformOS, moduleLoaded, nativeImpl, calls, requestNonces,
          webClientId, authState, pending>>

\* the number of runs that have ended
runs == Len(outcomes)

(* ---------------------------- initial trees ---------------------------- *)

GradleAlphabet ==
  {"implementation(\"", "com.facebook.react:react-android", "\")",
   "androidx.credentials:credentials", "\n"}

MainAlphabet ==
  {PackageListApply, " ", "{", "}", "GoogleCredentialPackage", "add(MyPackage())"}

\* a build.gradle as expo prebuild generates it
TypicalGradle ==
  <<"dependencies", " ", "{", "\n    ">> \o ReactAndroidAnchor \o <<"\n", "}", "\n">>

\* the anchor line twice
TwoAnchorGradle ==
  <<"dependencies", " ", "{", "\n    ">> \o ReactAndroidAnchor
  \o <<"\n    ">> \o ReactAndroidAnchor \o <<"\n", "}", "\n">>

\* the project already depends on an older androidx.credentials:credentials
OldCredentialsGradle ==
  <<"dependencies", " ", "{", "\n    ">> \o ReactAndroidAnchor
  \o <<"\n    ", "implementation(\"", "androidx.credentials:credentials",
       ":1.2.0", "\")", "\n", "}", "\n">>

\* a build.gradle without the react-android line
NoAnchorGradle == <<"dependencies", " ", "{", "\n", "}", "\n">>

GradleSamples ==
  {TypicalGradle, TwoAnchorGradle, OldCredentialsGradle, NoAnchorGradle, NoFile}

\* a MainApplication.kt as expo prebuild generates it
TypicalMain ==
  <<"class MainApplication", " ", "{", "\n", "val packages =", " ",
    PackageListApply, " ", "{", "\n",
    "// add(MyReactNativePackage())", "\n", "}", "\n", "}", "\n">>

\* the apply block holds a nested block
NestedMain ==
  <<"class MainApplication", " ", "{", "\n",
    PackageListApply, " ", "{", "\n",
    "if (BuildConfig.DEBUG)", " ", "{", "add(MyPackage())", "}", "\n",
    "add(OtherPackage())", "\n", "}", "\n", "}", "\n">>

\* no PackageList(this).packages.apply block
NoBlockMain ==
  <<"class MainApplication", " ", "{", "\n",
    "val packages = PackageList(this).packages", "\n", "}", "\n">>

\* the package name already occurs (a manual registration)
RegisteredMain ==
  <<"class MainApplication", " ", "{", "\n", "packages.add(",
    "GoogleCredentialPackage", "())", "\n", "}", "\n">>

MainSamples == {TypicalMain, NestedMain, NoBlockMain, RegisteredMain, NoFile}

\* content of a generated file left by an older version of the plugin
StaleKt == <<"package ", "old", "\n\n", "class Stale">>

\* the initial project trees: every short build.gradle with a typical
\* MainApplication.kt, every short MainApplication.kt with a typical
\* build.gradle, and the samples in every combination
Scenarios ==
  {[props |-> Absent, config |-> ComExampleApp, gradle |-> g,
    main |-> TypicalMain, kt |-> NoFile] :
      g \in TextsUpTo(GradleAlphabet, MaxGradleLen)}
  \cup
  {[props |-> ComMyapp, config |-> ComExampleApp, gradle |-> TypicalGradle,
    main |-> m, kt |-> NoFile] :
      m \in TextsUpTo(MainAlphabet, MaxMainLen)}
  \cup
  [props : {Absent, <<>>, ComMyapp}, config : {Absent, <<>>, ComExampleApp},
   gradle : GradleSamples, main : MainSamples, kt : {NoFile, StaleKt}]

\* the tree of a scenario: MainApplication.kt and the old generated files
\* stand in the directory of the package the run will resolve
TreeOf(sc) ==
  LET pkg == ResolvePackage(sc.props, sc.config)
  IN  [p \in Paths |->
         IF p = BuildGradlePath THEN sc.gradle
         ELSE IF p = SettingsGradlePath THEN <<"include ':app'">>
         ELSE IF p = MainAppPath(pkg) THEN sc.main
         ELSE IF p \in {ModulePath(pkg), PackageKtPath(pkg)} THEN sc.kt
         ELSE NoFile]

\* the package directories that hold a file
DirsOf(tree) ==
  {PackageDir(p) : p \in {q \in Packages :
     \E f \in {ModulePath(q), PackageKtPath(q), MainAppPath(q)} : tree[f] # NoFile}}

\* the order of the three withDangerousMod registrations in
\* withGoogleCredentialManager
RegisteredMods == <<"dependencies", "files", "mainApplication">>

Reverse(s) == [i \in 1..Len(s) |-> s[Len(s) + 1 - i]]

\* the orders in which three mods can run at all, by name
ModOrders ==
  {"registration", "reverse", "dependencies-mainApplication-files",
   "files-dependencies-mainApplication", "files-mainApplication-dependencies",
   "mainApplication-dependencies-files"}

\* the mods of a run in the order the mod compiler runs them
ChainOf(order) ==
  CASE order = "registration" -> RegisteredMods
    [] order = "reverse" -> Reverse(RegisteredMods)
    [] order = "dependencies-mainApplication-files" ->
         <<"dependencies", "mainApplication", "files">>
    [] order = "files-dependencies-mainApplication" ->
         <<"files", "dependencies", "mainApplication">>
    [] order = "files-mainApplication-dependencies" ->
         <<"files", "mainApplication", "dependencies">>
    [] order = "mainApplication-dependencies-files" ->
         <<"mainApplication", "dependencies", "files">>

Init ==
  \E sc \in Scenarios :
    /\ fs = TreeOf(sc)
    /\ dirs = DirsOf(TreeOf(sc))
    /\ propsPackage = sc.props
    /\ configPackage = sc.config
    /\ modOrder \in {"registration", "reverse"}
    /\ pc = "idle"
    /\ androidPackage = <<>>
    /\ chain = <<>>
    /\ log = <<>>
    /\ written = {}
    /\ outcomes = <<>>
    /\ startTree = TreeOf(sc)
    /\ tree0 = TreeOf(sc)
    /\ platformOS = "android"
    /\ moduleLoaded = TRUE
    /\ nativeImpl = "generated"
    /\ calls = [c \in 1..MaxCalls |-> NotCalled]
    /\ requestNonces = <<>>
    /\ webClientId = RealClientId
    /\ authState = Idle
    /\ pending = {}

(* ------------------------------- actions ------------------------------- *)

\* withGoogleCredentialManager: resolve the package, print it, register the
\* three mods; the mod compiler then runs them
StartRun ==
  /\ pc \in {"idle", "done", "failed"}
  /\ runs < MaxRuns
  /\ pc' = "running"
  /\ androidPackage' = ResolvePackage(propsPackage, configPackage)
  /\ chain' = ChainOf(modOrder)
  /\ log' = <<LogLine(MsgUsingPackage)>>
  /\ written' = {}
  /\ startTree' = fs
  /\ UNCHANGED <<fs, dirs, propsPackage, configPackage, modOrder, outcomes,
                 tree0>>
  /\ UNCHANGED bridgeVars
  /\ UNCHANGED appVars

\* the mod of withCredentialManagerDependencies; readFileSync throws when
\* build.gradle is missing and the rejected promise ends the run
DependenciesMod ==
  /\ pc = "running"
  /\ chain # <<>>
  /\ Head(chain) = "dependencies"
  /\ IF fs[BuildGradlePath] = NoFile
       THEN /\ pc' = "failed"
            /\ chain' = <<>>
            /\ outcomes' = Append(outcomes, "failed")
            /\ UNCHANGED <<fs, log, written>>
       ELSE LET r == DependencyPatch(fs[BuildGradlePath])
            IN  /\ fs' = IF r.wrote
                           THEN [fs EXCEPT ![BuildGradlePath] = r.text]
                           ELSE fs
                /\ written' = IF r.wrote
                                THEN written \cup {BuildGradlePath}
                                ELSE written
                /\ log' = Append(log, r.out)
                /\ chain' = Tail(chain)
                /\ UNCHANGED <<pc, outcomes>>
  /\ UNCHANGED <<dirs, propsPackage, configPackage, modOrder, androidPackage,
                 startTree, tree0>>
  /\ UNCHANGED bridgeVars
  /\ UNCHANGED appVars

FilesMod_KeepExisting ==
  /\ pc = "running"
  /\ chain # <<>>
  /\ Head(chain) = "files"
  /\ dirs' = dirs \cup {PackageDir(androidPackage)}
  /\ fs' = [fs EXCEPT
              ![ModulePath(androidPackage)] =
                 IF @ = NoFile
                   THEN generateGoogleCredentialModuleKt(androidPackage)
                   ELSE @,
              ![PackageKtPath(androidPackage)] =
                 IF @ = NoFile
                   THEN generateGoogleCredentialPackageKt(androidPackage)
                   ELSE @]
  /\ written' = written \cup {ModulePath(androidPackage),
                              PackageKtPath(androidPackage)}
  /\ log' = log \o <<LogLine(MsgModuleKt), LogLine(MsgPackageKt)>>
  /\ chain' = Tail(chain)
  /\ UNCHANGED <<propsPackage, configPackage, modOrder, pc, androidPackage,
                 outcomes, startTree, tree0>>
  /\ UNCHANGED bridgeVars
  /\ UNCHANGED appVars

\* the mod of withCredentialManagerFiles: mkdir -p, then both files are
\* written whatever they held
FilesMod ==
  /\ pc = "running"
  /\ chain # <<>>
  /\ Head(chain) = "files"
  /\ dirs' = dirs \cup {PackageDir(androidPackage)}
  /\ fs' = [fs EXCEPT
              ![ModulePath(androidPackage)] =
                 generateGoogleCredentialModuleKt(androidPackage),
              ![PackageKtPath(androidPackage)] =
                 generateGoogleCredentialPackageKt(androidPackage)]
  /\ written' = written \cup {ModulePath(androidPackage),
                              PackageKtPath(androidPackage)}
  /\ log' = log \o <<LogLine(MsgModuleKt), LogLine(MsgPackageKt)>>
  /\ chain' = Tail(chain)
  /\ UNCHANGED <<propsPackage, configPackage, modOrder, pc, androidPackage,
                 outcomes, startTree, tree0>>
  /\ UNCHANGED bridgeVars
  /\ UNCHANGED appVars

MainApplicationMod_NeedsPackageFile ==
  /\ pc = "running"
  /\ chain # <<>>
  /\ Head(chain) = "mainApplication"
  /\ LET mainAppPath == MainAppPath(androidPackage)
     IN  IF fs[mainAppPath] = NoFile
              \/ fs[PackageKtPath(androidPackage)] = NoFile
           THEN /\ log' = Append(log, WarnLine(MsgMainMissing))
                /\ UNCHANGED <<fs, written>>
           ELSE LET r == RegistrationPatch(fs[mainAppPath])
                IN  /\ fs' = IF r.wrote
                               THEN [fs EXCEPT ![mainAppPath] = r.text]
                               ELSE fs
                    /\ written' = IF r.wrote
                                    THEN written \cup {mainAppPath}
                                    ELSE written
                    /\ log' = Append(log, r.out)
  /\ chain' = Tail(chain)
  /\ UNCHANGED <<dirs, propsPackage, configPackage, modOrder, pc,
                 androidPackage, outcomes, startTree, tree0>>
  /\ UNCHANGED bridgeVars
  /\ UNCHANGED appVars

MainApplicationMod_ThrowOnMissing ==
  /\ pc = "running"
  /\ chain # <<>>
  /\ Head(chain) = "mainApplication"
  /\ LET mainAppPath == MainAppPath(androidPackage)
     IN  IF fs[mainAppPath] = NoFile
           THEN /\ pc' = "failed"
                /\ chain' = <<>>
                /\ outcomes' = Append(outcomes, "failed")
                /\ UNCHANGED <<fs, log, written>>
           ELSE LET r == RegistrationPatch(fs[mainAppPath])
                IN  /\ fs' = IF r.wrote
                               THEN [fs EXCEPT ![mainAppPath] = r.text]
                               ELSE fs
                    /\ written' = IF r.wrote
                                    THEN written \cup {mainAppPath}
                                    ELSE written
                    /\ log' = Append(log, r.out)
                    /\ chain' = Tail(chain)
                    /\ UNCHANGED <<pc, outcomes>>
  /\ UNCHANGED <<dirs, propsPackage, configPackage, modOrder,
                 androidPackage, startTree, tree0>>
  /\ UNCHANGED bridgeVars
  /\ UNCHANGED appVars

\* the mod of withCredentialManagerMainApplication
MainApplicationMod ==
  /\ pc = "running"
  /\ chain # <<>>
  /\ Head(chain) = "mainApplication"
  /\ LET mainAppPath == MainAppPath(androidPackage)
     IN  IF fs[mainAppPath] = NoFile
           THEN /\ log' = Append(log, WarnLine(MsgMainMissing))
                /\ UNCHANGED <<fs, written>>
           ELSE LET r == RegistrationPatch(fs[mainAppPath])
                IN  /\ fs' = IF r.wrote
                               THEN [fs EXCEPT ![mainAppPath] = r.text]
                               ELSE fs
                    /\ written' = IF r.wrote
                                    THEN written \cup {mainAppPath}
                                    ELSE written
                    /\ log' = Append(log, r.out)
  /\ chain' = Tail(chain)
  /\ UNCHANGED <<dirs, propsPackage, configPackage, modOrder, pc,
                 androidPackage, outcomes, startTree, tree0>>
  /\ UNCHANGED bridgeVars
  /\ UNCHANGED appVars

\* the last mod has returned: the run is complete
FinishRun ==
  /\ pc = "running"
  /\ chain = <<>>
  /\ pc' = "done"
  /\ outcomes' = Append(outcomes, "done")
  /\ UNCHANGED <<fs, dirs, propsPackage, configPackage, modOrder,
                 androidPackage, chain, log, written, startTree, tree0>>
  /\ UNCHANGED bridgeVars
  /\ UNCHANGED appVars

Next ==
  \/ StartRun
  \/ DependenciesMod
  \/ FilesMod
  \/ MainApplicationMod
  \/ FinishRun

Spec == Init /\ [][Next]_vars

\* the sample trees under every order of the three mods
SampleScenarios ==
  [props : {Absent, <<>>, ComMyapp}, config : {Absent, <<>>, ComExampleApp},
   gradle : GradleSamples, main : MainSamples, kt : {NoFile, StaleKt}]

OrderInit ==
  \E sc \in SampleScenarios :
    /\ fs = TreeOf(sc)
    /\ dirs = DirsOf(TreeOf(sc))
    /\ propsPackage = sc.props
    /\ configPackage = sc.config
    /\ modOrder \in ModOrders
    /\ pc = "idle"
    /\ androidPackage = <<>>
    /\ chain = <<>>
    /\ log = <<>>
    /\ written = {}
    /\ outcomes = <<>>
    /\ startTree = TreeOf(sc)
    /\ tree0 = TreeOf(sc)
    /\ platformOS = "android"
    /\ moduleLoaded = TRUE
    /\ nativeImpl = "generated"
    /\ calls = [c \in 1..MaxCalls |-> NotCalled]
    /\ requestNonces = <<>>
    /\ webClientId = RealClientId
    /\ authState = Idle
    /\ pending = {}

OrderSpec == OrderInit /\ [][Next]_vars

(* --------------------------- run-time actions -------------------------- *)

\* the project the app was built from
BuiltProject ==
  [props |-> ComMyapp, config |-> ComExampleApp, gradle |-> TypicalGradle,
   main |-> TypicalMain, kt |-> NoFile]

\* the app starts on some platform, with or without the native module; the
\* plugin is not running
BridgeInit ==
  /\ fs = TreeOf(BuiltProject)
  /\ dirs = DirsOf(TreeOf(BuiltProject))
  /\ propsPackage = BuiltProject.props
  /\ configPackage = BuiltProject.config
  /\ modOrder = "registration"
  /\ pc = "idle"
  /\ androidPackage = <<>>
  /\ chain = <<>>
  /\ log = <<>>
  /\ written = {}
  /\ outcomes = <<>>
  /\ startTree = TreeOf(BuiltProject)
  /\ tree0 = TreeOf(BuiltProject)
  /\ platformOS \in {"android", "ios", "web"}
  /\ moduleLoaded \in BOOLEAN
  /\ nativeImpl \in {"generated", "stub"}
  /\ calls = [c \in 1..MaxCalls |-> NotCalled]
  /\ requestNonces = <<>>
  /\ webClientId = RealClientId
  /\ authState = Idle
  /\ pending = {}

isGoogleSignInAvailable_ModuleOnly == moduleLoaded

\* Platform.OS === 'android' && !!GoogleCredentialModule
isGoogleSignInAvailable == platformOS = "android" /\ moduleLoaded

\* signInWithGoogle up to its await, on the record of the call: the two
\* checks, then the call of the native signIn
signInWithGoogle(call) ==
  IF platformOS # "android"
    THEN [call EXCEPT !.js = "threw", !.value = PlainError(MsgNotAndroid)]
    ELSE IF ~moduleLoaded
           THEN [call EXCEPT !.js = "threw", !.value = PlainError(MsgNoModule)]
           ELSE [call EXCEPT !.js = "awaiting",
                             !.nativeCalls = @ + 1,
                             !.native = "queued"]

\* some caller calls signInWithGoogle
SignInWithGoogle ==
  \E c \in 1..MaxCalls :
    /\ calls[c].js = "notCalled"
    /\ calls' = [calls EXCEPT ![c] = signInWithGoogle(calls[c])]
    /\ UNCHANGED <<platformOS, moduleLoaded, nativeImpl, requestNonces>>
    /\ UNCHANGED pluginVars
    /\ UNCHANGED appVars

\* the generated GoogleCredentialModule.signIn runs up to the launch of its
\* coroutine
NativeSignIn ==
  \E c \in 1..MaxCalls, activity \in BOOLEAN :
    /\ calls[c].native = "queued"
    /\ nativeImpl = "generated"
    /\ LET r == signIn(activity)
           nonce == FreshNonce(requestNonces)
       IN  /\ calls' = [calls EXCEPT
                          ![c].settles = @ \o r.settles,
                          ![c].activity = IF activity
                                            THEN "present"
                                            ELSE "absent",
                          ![c].native = IF r.requested
                                          THEN "requesting"
                                          ELSE "finished",
                          ![c].nonce = IF r.requested THEN nonce ELSE 0]
           /\ requestNonces' = IF r.requested
                                 THEN Append(requestNonces, nonce)
                                 ELSE requestNonces
    /\ UNCHANGED <<platformOS, moduleLoaded, nativeImpl>>
    /\ UNCHANGED pluginVars
    /\ UNCHANGED appVars

\* the coroutine: getCredential returns or throws, and the promise is settled
GetCredentialEnds ==
  \E c \in 1..MaxCalls, outcome \in CredentialOutcomes :
    /\ calls[c].native = "requesting"
    /\ calls' = [calls EXCEPT ![c].settles = @ \o CoroutineBody(outcome),
                              ![c].outcome = outcome,
                              ![c].native = "finished"]
    /\ UNCHANGED <<platformOS, moduleLoaded, nativeImpl, requestNonces>>
    /\ UNCHANGED pluginVars
    /\ UNCHANGED appVars

\* a stub of the native module settles the promise as it likes
StubSignIn ==
  \E c \in 1..MaxCalls, settlement \in StubSettlements :
    /\ calls[c].native = "queued"
    /\ nativeImpl = "stub"
    /\ calls' = [calls EXCEPT ![c].settles = <<settlement>>,
                              ![c].native = "finished"]
    /\ UNCHANGED <<platformOS, moduleLoaded, nativeImpl, requestNonces>>
    /\ UNCHANGED pluginVars
    /\ UNCHANGED appVars

\* signInWithGoogle after its await: the promise of the native call was
\* settled (its first settlement counts); return the result, return null
\* on a cancellation, rethrow anything else
SignInWithGoogleResumes ==
  \E c \in 1..MaxCalls :
    /\ calls[c].js = "awaiting"
    /\ calls[c].settles # <<>>
    /\ LET first == calls[c].settles[1]
       IN  calls' =
             IF first.kind = "resolve"
               THEN [calls EXCEPT ![c].js = "returned",
                                  ![c].value = first.value]
               ELSE IF IsCancellation(first.value)
                      THEN [calls EXCEPT ![c].js = "returned",
                                         ![c].value = JsNull]
                      ELSE [calls EXCEPT ![c].js = "threw",
                                         ![c].value = first.value]
    /\ UNCHANGED <<platformOS, moduleLoaded, nativeImpl, requestNonces>>
    /\ UNCHANGED pluginVars
    /\ UNCHANGED appVars

BridgeNext ==
  \/ SignInWithGoogle
  \/ NativeSignIn
  \/ GetCredentialEnds
  \/ StubSignIn
  \/ SignInWithGoogleResumes

BridgeSpec == BridgeInit /\ [][BridgeNext]_vars

(* -------------------------- example app actions ----------------------- *)

\* the example app starts: the app.json holds no client id, the placeholder
\* or a real one; the native module is the generated one when it is there
AppInit ==
  /\ fs = TreeOf(BuiltProject)
  /\ dirs = DirsOf(TreeOf(BuiltProject))
  /\ propsPackage = BuiltProject.props
  /\ configPackage = BuiltProject.config
  /\ modOrder = "registration"
  /\ pc = "idle"
  /\ androidPackage = <<>>
  /\ chain = <<>>
  /\ log = <<>>
  /\ written = {}
  /\ outcomes = <<>>
  /\ startTree = TreeOf(BuiltProject)
  /\ tree0 = TreeOf(BuiltProject)
  /\ platformOS \in {"android", "ios", "web"}
  /\ moduleLoaded \in BOOLEAN
  /\ nativeImpl = "generated"
  /\ calls = [c \in 1..MaxCalls |-> NotCalled]
  /\ requestNonces = <<>>
  /\ webClientId \in {NoClientId, PlaceholderClientId, RealClientId}
  /\ authState = Idle
  /\ pending = {}

\* the call number of the next signInWithGoogle call
NextCall == CHOOSE c \in 1..MaxCalls :
              /\ calls[c].js = "notCalled"
              /\ \A d \in 1..(c - 1) : calls[d].js # "notCalled"

HandleSignIn_AnyStatus ==
  /\ \E c \in 1..MaxCalls : calls[c].js = "notCalled"
  /\ IF webClientId \in {NoClientId, PlaceholderClientId}
       THEN /\ authState' = ErrorState(MsgSetClientId)
            /\ UNCHANGED <<calls, pending>>
       ELSE IF ~isGoogleSignInAvailable
              THEN /\ authState' = ErrorState(MsgOnlyAndroid)
                   /\ UNCHANGED <<calls, pending>>
              ELSE /\ authState' = Loading
                   /\ calls' = [calls EXCEPT
                                  ![NextCall] = signInWithGoogle(calls[NextCall])]
                   /\ pending' = pending \cup {NextCall}
  /\ UNCHANGED <<platformOS, moduleLoaded, nativeImpl, requestNonces,
                 webClientId>>
  /\ UNCHANGED pluginVars

\* the user presses "Sign in with Google", which is rendered in status idle
\* only: handleSignIn up to its await (as long as the model has a call
\* number left)
HandleSignIn ==
  /\ authState.status = "idle"
  /\ \E c \in 1..MaxCalls : calls[c].js = "notCalled"
  /\ IF webClientId \in {NoClientId, PlaceholderClientId}
       THEN /\ authState' = ErrorState(MsgSetClientId)
            /\ UNCHANGED <<calls, pending>>
       ELSE IF ~isGoogleSignInAvailable
              THEN /\ authState' = ErrorState(MsgOnlyAndroid)
                   /\ UNCHANGED <<calls, pending>>
              ELSE /\ authState' = Loading
                   /\ calls' = [calls EXCEPT
                                  ![NextCall] = signInWithGoogle(calls[NextCall])]
                   /\ pending' = pending \cup {NextCall}
  /\ UNCHANGED <<platformOS, moduleLoaded, nativeImpl, requestNonces,
                 webClientId>>
  /\ UNCHANGED pluginVars

\* handleSignIn after its await: authenticated with a result, idle on null,
\* error (with error.message || 'Sign-in failed') when the call threw; a
\* thrown null or undefined makes error.message throw inside the catch and
\* no state is set
HandleSignInResumes ==
  \E c \in pending :
    /\ calls[c].js \in {"returned", "threw"}
    /\ pending' = pending \ {c}
    /\ authState' =
         IF calls[c].js = "returned"
           THEN IF Truthy(calls[c].value)
                  THEN Authenticated(calls[c].value)
                  ELSE Idle
           ELSE IF calls[c].value.t \in {"null", "undefined"}
                  THEN authState
                  ELSE ErrorState(IF calls[c].value.msg # ""
                                    THEN calls[c].value.msg
                                    ELSE MsgSignInFailed)
    /\ UNCHANGED <<webClientId>>
    /\ UNCHANGED bridgeVars
    /\ UNCHANGED pluginVars

\* the user presses "Sign Out", rendered in status authenticated
HandleSignOut ==
  /\ authState.status = "authenticated"
  /\ authState' = Idle
  /\ UNCHANGED <<webClientId, pending>>
  /\ UNCHANGED bridgeVars
  /\ UNCHANGED pluginVars

\* the user presses "Try Again", rendered in status error
TryAgain ==
  /\ authState.status = "error"
  /\ authState' = Idle
  /\ UNCHANGED <<webClientId, pending>>
  /\ UNCHANGED bridgeVars
  /\ UNCHANGED pluginVars

AppNext ==
  \/ HandleSignIn
  \/ NativeSignIn
  \/ GetCredentialEnds
  \/ SignInWithGoogleResumes
  \/ HandleSignInResumes
  \/ HandleSignOut
  \/ TryAgain

\* a settled promise has its continuations run by the JavaScript event loop
AppSpec ==
  /\ AppInit
  /\ [][AppNext]_vars
  /\ WF_vars(SignInWithGoogleResumes)
  /\ WF_vars(HandleSignInResumes)

(* ------------------------------ properties ----------------------------- *)

\* the current run printed message m
Printed(m) == \E i \in 1..Len(log) : log[i].msg = m

\* the current run printed a warning
Warned == \E i \in 1..Len(log) : log[i].level = "warn"

\* MainApplication.kt of the package the runs resolve
TheMainAppPath == MainAppPath(ResolvePackage(propsPackage, configPackage))

\* C1: the dependency patch is idempotent: on every build.gradle text the
\* model reaches (every short text over the anchor and marker lexemes, the
\* samples, and every output of the patch), patching the patched text gives
\* the patched text.
C1_DependencyPatchIdempotent ==
  LET t == fs[BuildGradlePath]
  IN  t # NoFile =>
        DependencyPatch(DependencyPatch(t).text).text = DependencyPatch(t).text

\* a second run met the build.gradle the first run had patched and left it
C1_Witness ==
  /\ runs = 1
  /\ pc = "running"
  /\ Printed(MsgDepsPresent)
  /\ tree0[BuildGradlePath] # NoFile
  /\ Includes(tree0[BuildGradlePath], ReactAndroidAnchor)
  /\ ~Includes(tree0[BuildGradlePath], DependencyMarker)
  /\ fs[BuildGradlePath] = DependencyPatch(tree0[BuildGradlePath]).text
  /\ fs[BuildGradlePath] # tree0[BuildGradlePath]

\* C2: the registration patch is idempotent: on every MainApplication.kt
\* text the model reaches, patching the patched text gives the patched text.
C2_RegistrationPatchIdempotent ==
  \A p \in {MainAppPath(q) : q \in Packages} :
    fs[p] # NoFile =>
      RegistrationPatch(RegistrationPatch(fs[p]).text).text
        = RegistrationPatch(fs[p]).text

\* a second run met the MainApplication.kt the first run had patched
C2_Witness ==
  /\ runs = 1
  /\ pc = "running"
  /\ Printed(MsgAlreadyReg)
  /\ tree0[TheMainAppPath] # NoFile
  /\ HasApplyBlock(tree0[TheMainAppPath])
  /\ ~Includes(tree0[TheMainAppPath], RegistrationMarker)
  /\ fs[TheMainAppPath] = RegistrationPatch(tree0[TheMainAppPath]).text
  /\ fs[TheMainAppPath] # tree0[TheMainAppPath]

\* C3: once a run has completed, no step of a later run (same options, same
\* package) changes the content of any file of the tree.
C3_RerunLeavesTree ==
  [][(outcomes # <<>> /\ outcomes[Len(outcomes)] = "done") => fs' = fs]_vars

\* two completed runs; the first changed the tree, the second wrote files
\* and the tree is what it was when the second started
C3_Witness ==
  /\ outcomes = <<"done", "done">>
  /\ tree0 # startTree
  /\ written # {}
  /\ fs = startTree

\* C4 (as claimed): a build.gradle with neither the marker nor the anchor
\* makes the dependency step fail: the run ends in failure, no "added"
\* message is printed, no Kotlin file is written and the registration step
\* does not run.  Stated for the mods running in registration order.
C4_MissingAnchorIsFatal ==
  ( /\ modOrder = "registration"
    /\ pc \in {"done", "failed"}
    /\ startTree[BuildGradlePath] # NoFile
    /\ ~Includes(startTree[BuildGradlePath], DependencyMarker)
    /\ ~Includes(startTree[BuildGradlePath], ReactAndroidAnchor) )
  => ( /\ pc = "failed"
       /\ ~Printed(MsgDepsAdded)
       /\ written \cap {ModulePath(androidPackage),
                        PackageKtPath(androidPackage)} = {}
       /\ ~Printed(MsgMainMissing)
       /\ ~Printed(MsgAlreadyReg)
       /\ ~Printed(MsgRegistered) )

\* C5 (as claimed): when MainApplication.kt exists, lacks the name
\* GoogleCredentialPackage and has no apply block, the run completes, a
\* warning is printed and the package is not reported as registered.
C5_MissingBlockWarns ==
  ( /\ pc \in {"done", "failed"}
    /\ startTree[BuildGradlePath] # NoFile
    /\ startTree[TheMainAppPath] # NoFile
    /\ ~Includes(startTree[TheMainAppPath], RegistrationMarker)
    /\ ~HasApplyBlock(startTree[TheMainAppPath]) )
  => ( /\ pc = "done"
       /\ Warned
       /\ ~Printed(MsgRegistered) )

\* C6: no step changes a build.gradle that lacks the react-android anchor,
\* and no step changes a MainApplication.kt that lacks the apply block.
C6_NoAnchorNoChange ==
  [][ /\ ~Includes(fs[BuildGradlePath], ReactAndroidAnchor)
         => fs'[BuildGradlePath] = fs[BuildGradlePath]
      /\ \A p \in {MainAppPath(q) : q \in Packages} :
           ~HasApplyBlock(fs[p]) => fs'[p] = fs[p] ]_vars

\* a completed run in which both patch steps went past their already-applied
\* checks on files without anchor and without apply block
C6_Witness ==
  /\ pc = "done"
  /\ BuildGradlePath \in written
  /\ ~Includes(startTree[BuildGradlePath], ReactAndroidAnchor)
  /\ TheMainAppPath \in written
  /\ ~HasApplyBlock(startTree[TheMainAppPath])
  /\ fs[BuildGradlePath] = startTree[BuildGradlePath]
  /\ fs[TheMainAppPath] = startTree[TheMainAppPath]

\* the descriptors that hold the anchor line and nothing else
MinimalGradles == {ReactAndroidAnchor, ReactAndroidAnchor \o <<"\n">>}

\* C7: from a build.gradle that holds only the anchor line, after one run
\* and after every later run the text is the anchor, then the inserted
\* block (a comment and the three dependency lines credentials:1.3.0,
\* credentials-play-services-auth:1.3.0, googleid:1.1.1), then what
\* followed the anchor; it holds exactly three implementation lines more
\* than before.
C7_MinimalDescriptor ==
  (tree0[BuildGradlePath] \in MinimalGradles /\ runs >= 1) =>
    /\ fs[BuildGradlePath] =
         <<"implementation(\"", "com.facebook.react:react-android", "\")",
           "\n    ",
           "// Google Sign-In via Credential Manager (expo-plugin-google-signin)",
           "\n    ",
           "implementation(\"", "androidx.credentials:credentials", ":1.3.0",
           "\")",
           "\n    ",
           "implementation(\"", "androidx.credentials:credentials",
           "-play-services-auth:1.3.0", "\")",
           "\n    ",
           "implementation(\"",
           "com.google.android.libraries.identity.googleid:googleid",
           ":1.1.1", "\")",
           "\n">>
         \o SubSeq(tree0[BuildGradlePath], 4, Len(tree0[BuildGradlePath]))
    /\ CountOcc(fs[BuildGradlePath], <<"implementation(\"">>)
         = CountOcc(tree0[BuildGradlePath], <<"implementation(\"">>) + 3

\* two runs on the anchor-only descriptor; the second found it patched
C7_Witness ==
  /\ tree0[BuildGradlePath] = ReactAndroidAnchor
  /\ outcomes = <<"done", "done">>
  /\ Printed(MsgDepsPresent)
  /\ fs[BuildGradlePath] = startTree[BuildGradlePath]
  /\ fs[BuildGradlePath] # tree0[BuildGradlePath]

\* C9 (as claimed): a step is reported as applied only when it changed its
\* target file in this run.
C9_AppliedMeansChanged ==
  /\ Printed(MsgDepsAdded)
       => fs[BuildGradlePath] # startTree[BuildGradlePath]
  /\ Printed(MsgRegistered)
       => fs[TheMainAppPath] # startTree[TheMainAppPath]

\* C10: from a tree whose build.gradle did not hold the inserted dependency
\* block and whose MainApplication.kt did not hold the statement
\* add(GoogleCredentialPackage()), after any number of runs the block occurs
\* at most once and the statement occurs at most once.
C10_PatchAtMostOnce ==
  /\ CountOcc(tree0[BuildGradlePath], dependencyToAdd) = 0
       => CountOcc(fs[BuildGradlePath], dependencyToAdd) <= 1
  /\ \A p \in {MainAppPath(q) : q \in Packages} :
       CountOcc(tree0[p], RegistrationStatement) = 0
         => CountOcc(fs[p], RegistrationStatement) <= 1

\* both insertions were made once and a further run has completed
C10_Witness ==
  /\ outcomes = <<"done", "done">>
  /\ CountOcc(tree0[BuildGradlePath], dependencyToAdd) = 0
  /\ CountOcc(tree0[TheMainAppPath], RegistrationStatement) = 0
  /\ CountOcc(fs[BuildGradlePath], dependencyToAdd) = 1
  /\ CountOcc(fs[TheMainAppPath], RegistrationStatement) = 1
  /\ CountOcc(tree0[BuildGradlePath], ReactAndroidAnchor) = 2

\* every lexeme of a occurs in b, in the same order (b is a with insertions)
RECURSIVE IsSubsequence(_, _)
IsSubsequence(a, b) ==
  IF a = <<>> THEN TRUE
  ELSE IF b = <<>> THEN FALSE
  ELSE IF Head(a) = Head(b) THEN IsSubsequence(Tail(a), Tail(b))
  ELSE IsSubsequence(a, Tail(b))

\* C11 (as claimed): when the registration patch applies (name absent, apply
\* block present) the new MainApplication.kt is the old text with insertions
\* only: every lexeme of the old text, inside and outside the block, is kept
\* in order, and the registration statement occurs exactly once.
C11_RegistrationIsPureInsertion ==
  ( /\ Printed(MsgRegistered)
    /\ HasApplyBlock(startTree[TheMainAppPath])
    /\ ~Includes(startTree[TheMainAppPath], RegistrationMarker) )
  => ( /\ IsSubsequence(startTree[TheMainAppPath], fs[TheMainAppPath])
       /\ CountOcc(fs[TheMainAppPath], RegistrationStatement) = 1 )

\* C12: once the file-generation step of a run has run, both generated
\* files under the package directory hold the generator output for the
\* run's package, whatever they held (or whether they existed) before.
C12_GeneratedFilesReplaced ==
  (pc \in {"running", "done"} /\ Printed(MsgPackageKt)) =>
    /\ fs[ModulePath(androidPackage)]
         = generateGoogleCredentialModuleKt(androidPackage)
    /\ fs[PackageKtPath(androidPackage)]
         = generateGoogleCredentialPackageKt(androidPackage)

\* the run found files of an older version and replaced them
C12_Witness ==
  /\ pc = "done"
  /\ Printed(MsgPackageKt)
  /\ startTree[ModulePath(androidPackage)] = StaleKt
  /\ startTree[PackageKtPath(androidPackage)] = StaleKt
  /\ fs[ModulePath(androidPackage)]
       = generateGoogleCredentialModuleKt(androidPackage)
  /\ fs[PackageKtPath(androidPackage)]
       = generateGoogleCredentialPackageKt(androidPackage)

\* an option that was given: defined and not the empty string
Supplied(option) == option # Absent /\ option # <<>>

\* C13: the package of a run is props.androidPackage when that is supplied,
\* otherwise config.android.package when that is present, otherwise
\* com.app (an empty string counts as not supplied); the generated files
\* carry that package and stand in its directory, and the only
\* MainApplication.kt a run writes is the one in that directory.
C13_PackagePriority ==
  pc \in {"running", "done", "failed"} =>
    /\ Supplied(propsPackage) => androidPackage = propsPackage
    /\ (~Supplied(propsPackage) /\ Supplied(configPackage))
         => androidPackage = configPackage
    /\ (~Supplied(propsPackage) /\ ~Supplied(configPackage))
         => androidPackage = <<"com", ".", "app">>
    /\ Printed(MsgPackageKt) =>
         /\ SubSeq(fs[ModulePath(androidPackage)], 1, 1 + Len(androidPackage))
              = <<"package ">> \o androidPackage
         /\ SubSeq(fs[PackageKtPath(androidPackage)], 1, 1 + Len(androidPackage))
              = <<"package ">> \o androidPackage
    /\ \A q \in Packages :
         MainAppPath(q) \in written => q = androidPackage

\* a completed run in which the option and the config both gave a package
\* and the option won, for the generated files and for MainApplication.kt
C13_Witness ==
  /\ pc = "done"
  /\ propsPackage = ComMyapp
  /\ configPackage = ComExampleApp
  /\ androidPackage = ComMyapp
  /\ MainAppPath(ComMyapp) \in written
  /\ ModulePath(ComMyapp) \in written

\* C14: the package a run hands to the generators and to the path resolver
\* is never the empty string (nor undefined), whatever props.androidPackage
\* and config.android.package are: absent, empty or non-empty.
C14_PackageNeverEmpty ==
  pc \in {"running", "done", "failed"} =>
    /\ androidPackage # <<>>
    /\ androidPackage # Absent

\* both the option and the config field are the empty string
C14_Witness ==
  /\ pc = "done"
  /\ propsPackage = <<>>
  /\ configPackage = <<>>
  /\ androidPackage = ComApp
  /\ ModulePath(ComApp) \in written

\* the four paths a run with package pkg may write
TargetPaths(pkg) ==
  LET dir == IF pkg = <<"com", ".", "app">>
               THEN <<"app", "/", "src", "/", "main", "/", "java", "/",
                      "com", "/", "app">>
             ELSE IF pkg = <<"com", ".", "myapp">>
               THEN <<"app", "/", "src", "/", "main", "/", "java", "/",
                      "com", "/", "myapp">>
             ELSE <<"app", "/", "src", "/", "main", "/", "java", "/",
                    "com", "/", "example", "/", "app">>
  IN  { <<"app", "/", "build.gradle">>,
        dir \o <<"/", "GoogleCredentialModule.kt">>,
        dir \o <<"/", "GoogleCredentialPackage.kt">>,
        dir \o <<"/", "MainApplication.kt">> }

\* C20: a run writes only app/build.gradle and, under
\* app/src/main/java/<package path>, GoogleCredentialModule.kt,
\* GoogleCredentialPackage.kt and MainApplication.kt; every other file of
\* the tree keeps the content it had before the first run.
C20_OnlyTargetPathsTouched ==
  pc \in {"running", "done", "failed"} =>
    /\ written \subseteq TargetPaths(androidPackage)
    /\ \A p \in Paths \ TargetPaths(androidPackage) : fs[p] = tree0[p]

\* a completed run wrote all four target paths and left settings.gradle
C20_Witness ==
  /\ pc = "done"
  /\ androidPackage = ComMyapp
  /\ written = TargetPaths(ComMyapp)
  /\ fs[SettingsGradlePath] = tree0[SettingsGradlePath]
  /\ fs[SettingsGradlePath] # NoFile


(* ------------------------- run-time properties ------------------------- *)

Calls == 1..MaxCalls

\* signInWithGoogle has come back to its caller
Ended(c) == calls[c].js \in {"returned", "threw"}

\* the native signIn rejected the promise of call c
NativeRejected(c) ==
  /\ calls[c].settles # <<>>
  /\ calls[c].settles[1].kind = "reject"

\* the rejection is an error object whose code is SIGN_IN_CANCELLED
CancelObject(value) == value.t = "object" /\ value.code = "SIGN_IN_CANCELLED"

\* C15: whenever the native signIn rejects with an error object whose code
\* is SIGN_IN_CANCELLED, signInWithGoogle returns null and does not throw.
C15_CancellationYieldsNull ==
  \A c \in Calls :
    (Ended(c) /\ NativeRejected(c) /\ CancelObject(calls[c].settles[1].value))
      => (calls[c].js = "returned" /\ calls[c].value = JsNull)

\* the generated module caught a GetCredentialCancellationException and the
\* bridge call has ended
C15_Witness ==
  \E c \in Calls :
    /\ nativeImpl = "generated"
    /\ Ended(c)
    /\ NativeRejected(c)
    /\ CancelObject(calls[c].settles[1].value)
    /\ calls[c].value = JsNull

\* C16: whenever the native signIn rejects with anything other than an object
\* whose code is SIGN_IN_CANCELLED (another code, no code, a non-object),
\* signInWithGoogle throws that same value and returns neither null nor a
\* result.
C16_OtherRejectionsRethrown ==
  \A c \in Calls :
    (Ended(c) /\ NativeRejected(c) /\ ~CancelObject(calls[c].settles[1].value))
      => (calls[c].js = "threw" /\ calls[c].value = calls[c].settles[1].value)

\* one call was rejected with a non-object that carries the cancellation
\* code, another with an object of another code, and both were rethrown
C16_Witness ==
  \E c, d \in Calls :
    /\ Ended(c) /\ NativeRejected(c)
    /\ calls[c].settles[1].value.t = "function"
    /\ calls[c].settles[1].value.code = "SIGN_IN_CANCELLED"
    /\ calls[c].js = "threw"
    /\ Ended(d) /\ NativeRejected(d)
    /\ calls[d].settles[1].value.t = "object"
    /\ calls[d].settles[1].value.code = "NO_CREDENTIAL"
    /\ calls[d].js = "threw"

\* C17: every error signInWithGoogle throws, with the generated native
\* module, is an object whose code is one of the GoogleSignInErrorCode
\* strings.
C17_EveryThrownErrorTagged ==
  \A c \in Calls :
    (nativeImpl = "generated" /\ calls[c].js = "threw")
      => /\ calls[c].value.t = "object"
         /\ calls[c].value.code \in GoogleSignInErrorCodes

\* C18: the native signIn is called only when the platform is Android and the
\* native module is loaded, which is exactly when isGoogleSignInAvailable is
\* true; otherwise signInWithGoogle throws without a native call; when it
\* calls, it calls exactly once.
C18_PresenceCheckedBeforeCall ==
  \A c \in Calls :
    /\ calls[c].nativeCalls <= 1
    /\ calls[c].nativeCalls = 1 =>
         (platformOS = "android" /\ moduleLoaded /\ isGoogleSignInAvailable)
    /\ (calls[c].js # "notCalled" /\ isGoogleSignInAvailable) =>
         calls[c].nativeCalls = 1
    /\ (calls[c].js # "notCalled" /\ ~isGoogleSignInAvailable) =>
         (calls[c].js = "threw" /\ calls[c].nativeCalls = 0)

\* a call went through the checks, called the native signIn once and ended
C18_Witness ==
  \E c \in Calls :
    /\ isGoogleSignInAvailable
    /\ Ended(c)
    /\ calls[c].nativeCalls = 1

\* C19: every call of the generated GoogleCredentialModule.signIn settles its
\* promise exactly once: never twice, and once its code has run to its end
\* (no activity, any credential exception, unexpected class or type, parse
\* failure, success) the promise is settled.
C19_SettledExactlyOnce ==
  nativeImpl = "generated" =>
    \A c \in Calls :
      /\ Len(calls[c].settles) <= 1
      /\ calls[c].native = "finished" => Len(calls[c].settles) = 1

\* one call ended without an activity and another after its coroutine, each
\* with one settlement
C19_Witness ==
  \E c, d \in Calls :
    /\ nativeImpl = "generated"
    /\ calls[c].native = "finished" /\ calls[c].nonce = 0
    /\ Len(calls[c].settles) = 1
    /\ calls[d].native = "finished" /\ calls[d].nonce # 0
    /\ Len(calls[d].settles) = 1

(* ----------------------- generators and path rule ---------------------- *)

\* C21: packageToPath replaces every "." of the package identifier by "/"
\* and changes nothing else, so the path has the identifier's segments in
\* their order; com.example.app gives com/example/app, and that is the
\* directory the run creates.
C21_ToPathReplacesEveryDot ==
  pc \in {"running", "done", "failed"} =>
    LET path == packageToPath(androidPackage)
    IN  /\ Len(path) = Len(androidPackage)
        /\ \A i \in 1..Len(androidPackage) :
             /\ androidPackage[i] = "." => path[i] = "/"
             /\ androidPackage[i] # "." => path[i] = androidPackage[i]
        /\ androidPackage = <<"com", ".", "example", ".", "app">> =>
             /\ path = <<"com", "/", "example", "/", "app">>
             /\ Printed(MsgPackageKt) =>
                  <<"app", "/", "src", "/", "main", "/", "java", "/",
                    "com", "/", "example", "/", "app">> \in dirs

\* a run with the three-segment package com.example.app has generated its
\* files
C21_Witness ==
  /\ pc = "done"
  /\ androidPackage = <<"com", ".", "example", ".", "app">>
  /\ Printed(MsgPackageKt)
  /\ PackageDir(androidPackage) \in dirs
  /\ ModulePath(androidPackage) \in written

RejectCode(c, i) == calls[c].settles[i].value.code

\* C23: every rejection of the generated signIn carries a code of
\* GoogleSignInErrorCode, and the category fixes the code: a cancellation
\* gives SIGN_IN_CANCELLED, no credential NO_CREDENTIAL, any other credential
\* exception CREDENTIAL_ERROR, a credential that fails to parse PARSE_ERROR,
\* and only an exception outside these gives UNKNOWN_ERROR.
C23_CategoryFixesCode ==
  nativeImpl = "generated" =>
    \A c \in Calls :
      \A i \in 1..Len(calls[c].settles) :
        calls[c].settles[i].kind = "reject" =>
          LET code   == RejectCode(c, i)
              thrown == calls[c].outcome.throws
              cred   == calls[c].outcome.credential
          IN  /\ code \in {"SIGN_IN_CANCELLED", "NO_CREDENTIAL",
                           "CREDENTIAL_ERROR", "PARSE_ERROR",
                           "INVALID_CREDENTIAL_TYPE", "INVALID_CREDENTIAL",
                           "NO_ACTIVITY", "UNKNOWN_ERROR"}
              /\ code \in GoogleSignInErrorCodes
              /\ thrown = "GetCredentialCancellationException"
                   => code = "SIGN_IN_CANCELLED"
              /\ thrown = "NoCredentialException" => code = "NO_CREDENTIAL"
              /\ thrown = "GetCredentialUnknownException"
                   => code = "CREDENTIAL_ERROR"
              /\ thrown = "IllegalStateException" => code = "UNKNOWN_ERROR"
              /\ code = "UNKNOWN_ERROR" => thrown = "IllegalStateException"
              /\ ( /\ thrown = "nothing"
                   /\ cred.class = "CustomCredential"
                   /\ cred.type = "TYPE_GOOGLE_ID_TOKEN_CREDENTIAL" )
                   => code = "PARSE_ERROR"
              /\ code = "PARSE_ERROR" => (thrown = "nothing" /\ ~cred.parses)

\* one call was cancelled and another found no credential; each was rejected
\* with its own code
C23_Witness ==
  \E c, d \in Calls :
    /\ nativeImpl = "generated"
    /\ calls[c].outcome.throws = "GetCredentialCancellationException"
    /\ calls[c].settles # <<>>
    /\ RejectCode(c, 1) = "SIGN_IN_CANCELLED"
    /\ calls[d].outcome.throws = "NoCredentialException"
    /\ calls[d].settles # <<>>
    /\ RejectCode(d, 1) = "NO_CREDENTIAL"

\* C24: without a current activity the generated signIn rejects with
\* NO_ACTIVITY and does nothing else: no nonce, no credential request, no
\* later resolve or reject for that call.
C24_NoActivityFailsFast ==
  nativeImpl = "generated" =>
    /\ \A c \in Calls :
         calls[c].activity = "absent" =>
           /\ Len(calls[c].settles) = 1
           /\ calls[c].settles[1].kind = "reject"
           /\ RejectCode(c, 1) = "NO_ACTIVITY"
           /\ calls[c].nonce = 0
           /\ calls[c].native = "finished"
           /\ calls[c].outcome = NoOutcome
    /\ Len(requestNonces)
         = Cardinality({c \in Calls : calls[c].activity = "present"})

\* a call without activity has come back to JavaScript with NO_ACTIVITY and
\* no request was ever issued
C24_Witness ==
  \E c \in Calls :
    /\ nativeImpl = "generated"
    /\ calls[c].activity = "absent"
    /\ calls[c].js = "threw"
    /\ calls[c].value.code = "NO_ACTIVITY"
    /\ requestNonces = <<>>

\* C25: every signIn call that reaches the credential request makes its own
\* nonce; over any calls, overlapping ones included, no two requests carry
\* the same nonce.
C25_NonceFresh ==
  nativeImpl = "generated" =>
    /\ \A i, j \in 1..Len(requestNonces) :
         i # j => requestNonces[i] # requestNonces[j]
    /\ \A c, d \in Calls :
         (c # d /\ calls[c].nonce # 0 /\ calls[d].nonce # 0)
           => calls[c].nonce # calls[d].nonce
    /\ \A c \in Calls :
         calls[c].native \in {"requesting", "finished"} =>
           (calls[c].nonce # 0 <=> calls[c].activity = "present")
    /\ \A c \in Calls :
         calls[c].nonce # 0 =>
           \E i \in 1..Len(requestNonces) : requestNonces[i] = calls[c].nonce

\* two requests are under way at the same time, with different nonces
C25_Witness ==
  \E c, d \in Calls :
    /\ c # d
    /\ nativeImpl = "generated"
    /\ calls[c].native = "requesting"
    /\ calls[d].native = "requesting"
    /\ calls[c].nonce # calls[d].nonce
    /\ Len(requestNonces) = 2

(* -------------------------- results of a run --------------------------- *)

\* the three dependency coordinates, as lexemes
CredentialsCoordinate == <<"androidx.credentials:credentials">>
PlayServicesAuthCoordinate ==
  <<"androidx.credentials:credentials", "-play-services-auth:1.3.0">>
GoogleIdCoordinate ==
  <<"com.google.android.libraries.identity.googleid:googleid">>

\* C26 (as claimed): after a completed run on a build.gradle that holds the
\* react-android anchor, the descriptor holds all three dependency
\* coordinates (credentials, credentials-play-services-auth, googleid), also
\* when it held the text androidx.credentials:credentials before.
C26_AllDependenciesAfterRun ==
  (pc = "done" /\ Includes(startTree[BuildGradlePath], ReactAndroidAnchor)) =>
    /\ Includes(fs[BuildGradlePath], CredentialsCoordinate)
    /\ Includes(fs[BuildGradlePath], PlayServicesAuthCoordinate)
    /\ Includes(fs[BuildGradlePath], GoogleIdCoordinate)

\* what each stage, run on its own on the tree, leaves in the files it owns
ExpectedTree(tree, pkg) ==
  [p \in Paths |->
     IF p = BuildGradlePath THEN DependencyPatch(tree[p]).text
     ELSE IF p = ModulePath(pkg) THEN generateGoogleCredentialModuleKt(pkg)
     ELSE IF p = PackageKtPath(pkg) THEN generateGoogleCredentialPackageKt(pkg)
     ELSE IF p = MainAppPath(pkg) /\ tree[p] # NoFile
       THEN RegistrationPatch(tree[p]).text
     ELSE tree[p]]

\* C27: when no stage of a run fails, the final tree does not depend on the
\* order in which the three stages ran: in each of the six orders it is the
\* tree in which each stage has worked on its own files.
C27_OrderIndependentResult ==
  pc = "done" => fs = ExpectedTree(startTree, androidPackage)

\* a run that changed all four files, in an order that is neither the
\* order of registration nor its reverse
C27_Witness ==
  /\ pc = "done"
  /\ modOrder = "files-mainApplication-dependencies"
  /\ written = {BuildGradlePath, ModulePath(androidPackage),
                PackageKtPath(androidPackage), MainAppPath(androidPackage)}
  /\ fs[BuildGradlePath] # startTree[BuildGradlePath]
  /\ fs[MainAppPath(androidPackage)] # startTree[MainAppPath(androidPackage)]
  /\ startTree[ModulePath(androidPackage)] = NoFile

\* the braces of a text are balanced: depth never below 0, and 0 at the end
RECURSIVE DepthOk(_, _)
DepthOk(s, depth) ==
  IF s = <<>> THEN depth = 0
  ELSE IF Head(s) = "{" THEN DepthOk(Tail(s), depth + 1)
  ELSE IF Head(s) = "}" THEN depth > 0 /\ DepthOk(Tail(s), depth - 1)
  ELSE DepthOk(Tail(s), depth)

Balanced(s) == DepthOk(s, 0)

\* C28 (as claimed): on a MainApplication.kt with balanced braces, nested
\* braces inside the apply block included, the text after the registration
\* step has balanced braces and holds the registration statement.
C28_RegistrationKeepsBraces ==
  ( /\ Printed(MsgRegistered)
    /\ HasApplyBlock(startTree[TheMainAppPath])
    /\ Balanced(startTree[TheMainAppPath]) )
  => ( /\ Balanced(fs[TheMainAppPath])
       /\ Includes(fs[TheMainAppPath], RegistrationStatement) )

\* C29: when MainApplication.kt does not exist in the package directory, the
\* registration step prints a warning, neither creates nor writes the file,
\* and the run completes; the dependency patch and the two generated files
\* of the run are in place.
C29_MissingMainIsSoft ==
  /\ ( /\ pc \in {"running", "done", "failed"}
       /\ startTree[TheMainAppPath] = NoFile )
     => /\ fs[TheMainAppPath] = NoFile
        /\ TheMainAppPath \notin written
        /\ ~Printed(MsgRegistered)
        /\ ~Printed(MsgAlreadyReg)
        /\ (pc = "failed" => startTree[BuildGradlePath] = NoFile)
  /\ ( /\ pc = "done"
       /\ startTree[TheMainAppPath] = NoFile )
     => /\ Printed(MsgMainMissing)
        /\ Warned
        /\ fs[BuildGradlePath] = DependencyPatch(startTree[BuildGradlePath]).text
        /\ fs[ModulePath(androidPackage)]
             = generateGoogleCredentialModuleKt(androidPackage)
        /\ fs[PackageKtPath(androidPackage)]
             = generateGoogleCredentialPackageKt(androidPackage)

\* a completed run without MainApplication.kt that patched build.gradle and
\* wrote both generated files
C29_Witness ==
  /\ pc = "done"
  /\ modOrder = "registration"
  /\ startTree[TheMainAppPath] = NoFile
  /\ Printed(MsgMainMissing)
  /\ written = {BuildGradlePath, ModulePath(androidPackage),
                PackageKtPath(androidPackage)}
  /\ fs[BuildGradlePath] # startTree[BuildGradlePath]

(* ------------------------------ example app ---------------------------- *)

\* the signInWithGoogle calls that are in flight
InFlight == {c \in Calls : calls[c].js = "awaiting"}

\* a step that starts a signInWithGoogle call
StartsCall == \E c \in Calls : calls[c].js = "notCalled" /\ calls'[c].js # "notCalled"

\* a step that leaves status loading does so for the call the app awaits,
\* after that call has ended, and for the successor its outcome fixes
LeavesLoadingByOutcome ==
  (authState.status = "loading" /\ authState'.status # "loading") =>
    \E c \in pending :
      /\ Ended(c)
      /\ pending' = pending \ {c}
      /\ authState'.status = "authenticated" <=>
           (calls[c].js = "returned" /\ calls[c].value # JsNull)
      /\ authState'.status = "authenticated" => authState'.user = calls[c].value
      /\ authState'.status = "idle" <=>
           (calls[c].js = "returned" /\ calls[c].value = JsNull)
      /\ authState'.status = "error" <=> calls[c].js = "threw"

\* C30: in the example app a sign-in starts only from status idle, so at
\* most one signInWithGoogle call is in flight; a loading state is left only
\* for the successor the outcome of its call fixes (authenticated with a
\* non-null result, idle on null, error on a throw); and once the call has
\* settled the app does not stay in loading.
C30_AuthStateMachine ==
  /\ [][StartsCall => authState.status = "idle"]_vars
  /\ [][authState'.status = "loading" => authState.status \in {"idle", "loading"}]_vars
  /\ [](Cardinality(InFlight) <= 1)
  /\ [](authState.status = "loading" => Cardinality(pending) = 1)
  /\ [][LeavesLoadingByOutcome]_vars
  /\ \A c \in Calls :
       (authState.status = "loading" /\ c \in pending /\ calls[c].settles # <<>>)
         ~> (authState.status # "loading")

\* the first sign-in was cancelled and took the app back to idle, the second
\* one ended with a result and the app is authenticated
C30_Witness ==
  \E c, d \in Calls :
    /\ c # d
    /\ calls[c].js = "returned" /\ calls[c].value = JsNull
    /\ calls[d].js = "returned" /\ calls[d].value = SignInResult
    /\ authState = Authenticated(SignInResult)
    /\ pending = {}
=============================================================================
